---- MODULE Spec2Model ----
(***************************************************************************)
(* A model of src/qdrant.py: the QdrantInput request validator and the     *)
(* QdrantTool dispatcher (_run) with its five operation handlers, run      *)
(* against a vector store and an embedding provider.  The store and the    *)
(* provider are external collaborators; they are modelled by the interface *)
(* the tool calls (collection_exists, create_collection, upsert, scroll,   *)
(* delete, search, embed), and every call the tool makes is logged.        *)
(***************************************************************************)
EXTENDS Integers, Sequences, FiniteSets, TLC

VARIABLES
    exists,       \* the names of the collections the store holds
    points,       \* points[c]: the points of collection c, a set of [id, vector, payload]
    req,          \* the request of the latest execute call
    resp,         \* its outcome: [raised, text], text a sequence of lines
    calls,        \* the collaborator calls it made, in order
    added,        \* history: the point of the latest successful add, while untouched
    created,      \* history: the names create_collection was invoked for
    pc,           \* concurrent callers: each caller's position in _run
    creq,         \* concurrent callers: each caller's request
    saw,          \* concurrent callers: what collection_exists answered
    clog          \* concurrent callers: the calls each has made so far

vars == <<exists, points, req, resp, calls, added, created, pc, creq, saw, clog>>

---------------------------------------------------------------------------
(* Bounds and value sets *)

MaxLimit == 1
VECTOR_SIZE == 1536
DEFAULT_LIMIT == 10
Limits == (1..MaxLimit) \cup {DEFAULT_LIMIT}

Collections == {"c1", "c2"}
Ids == {"p1", "p2"}
Contents == {"hello", "new"}
MetaKeys == {"tag"}
MetaVals == {"x"}
UnknownActions == {"frobnicate", "ADD"}
Procs == {1, 2}

\* Python's None for an optional string field, and the empty string.
None == "<None>"
\* The values the requests draw each optional field from: absent, empty
\* and present values are each drawn for every field.
AddTexts == {None, ""} \cup Contents
UpdateTexts == {None} \cup Contents
UpdateIds == {""} \cup Ids
DeleteIds == {None, ""} \cup Ids
Queries == {None, "", "hello"}
FilterKeys == {None, ""} \cup MetaKeys
FilterVals == {None} \cup MetaVals

\* A metadata mapping is a set of <<key, value>> pairs with distinct keys.
EmptyMap == {}
Maps == {EmptyMap} \cup {{<<k, v>>} : k \in MetaKeys, v \in MetaVals}
\* Optional[Dict]: absent (None) or a mapping.
NoneMeta == [isNone |-> TRUE, map |-> EmptyMap]
SomeMeta(m) == [isNone |-> FALSE, map |-> m]
OptMetas == {NoneMeta} \cup {SomeMeta(m) : m \in Maps}

\* Python truthiness of an optional string: None and "" are falsy.
Truthy(s) == s # None /\ s # ""

\* `metadata or {}`: None and the empty dict are both falsy.
MetadataOrEmpty(md) == IF md.isNone \/ md.map = EmptyMap THEN EmptyMap ELSE md.map

Request(a, c, content, md, pid, q, fb, fv, lim) ==
    [action |-> a, collection_name |-> c, content |-> content, metadata |-> md,
     point_id |-> pid, query |-> q, filter_by |-> fb, filter_value |-> fv,
     limit |-> lim]

---------------------------------------------------------------------------
(* Text: a text is a sequence of lines; "\n".join(lines) *)

NoExc == "<no exception>"

RECURSIVE MapItems(_)
MapItems(m) ==
    IF m = {} THEN ""
    ELSE LET p == CHOOSE e \in m : TRUE
             rest == m \ {p}
         IN "'" \o p[1] \o "': '" \o p[2] \o "'"
            \o (IF rest = {} THEN "" ELSE ", " \o MapItems(rest))

\* str(dict) as the f-string renders it
DictRepr(m) == "{" \o MapItems(m) \o "}"

---------------------------------------------------------------------------
(* The external collaborators, as the tool calls them *)

\* The provider's vector for a text: VECTOR_SIZE numbers that depend on the
\* text alone.
Embed(t) == [size |-> VECTOR_SIZE, of |-> t]

\* The store's cosine score of a stored vector against the query vector,
\* as str(point.score) prints it.
Score(qv, pv) == IF qv = pv THEN "1.0" ELSE "0.5"

Point(id, vector, payload) == [id |-> id, vector |-> vector, payload |-> payload]
Payload(content, m) == [content |-> content, metadata |-> m]

IdsOf(ps) == {p.id : p \in ps}
PointWithId(ps, id) == CHOOSE p \in ps : p.id = id

\* upsert(points=[point]): the point replaces any point of the same id.
Upsert(ps, point) == {p \in ps : p.id # point.id} \cup {point}

\* delete(points_selector=[id]): removes the point if there is one.
Delete(ps, id) == {p \in ps : p.id # id}

\* Filter(must=[FieldCondition(key, MatchValue(value))]); key is a payload path.
NoFilter == [none |-> TRUE, key |-> <<>>, value |-> ""]
FieldFilter(key, value) == [none |-> FALSE, key |-> key, value |-> value]

Matches(p, f) ==
    \/ f.none
    \/ /\ Len(f.key) = 2
       /\ f.key[1] = "metadata"
       /\ <<f.key[2], f.value>> \in p.payload.metadata

Take(s, n) == IF Len(s) <= n THEN s ELSE SubSeq(s, 1, n)

\* scroll(limit): up to limit points in the store's order (order: the ids in
\* the order the store walks them).
Scroll(ps, limit, order) ==
    LET Present(i) == i \in IdsOf(ps)
        ids == Take(SelectSeq(order, Present), limit)
    IN [k \in 1..Len(ids) |-> PointWithId(ps, ids[k])]

\* search(query_vector, limit, query_filter): the matching points by
\* decreasing score, equal scores in the store's order, cut to limit.
Search(ps, qv, limit, f, order) ==
    LET Hit(i) == i \in IdsOf(ps) /\ Matches(PointWithId(ps, i), f)
        Best(i) == Hit(i) /\ Score(qv, PointWithId(ps, i).vector) = "1.0"
        Rest(i) == Hit(i) /\ Score(qv, PointWithId(ps, i).vector) # "1.0"
        ids == Take(SelectSeq(order, Best) \o SelectSeq(order, Rest), limit)
    IN [k \in 1..Len(ids) |-> PointWithId(ps, ids[k])]

\* The message of the exception a failing collaborator call raises.
ExcMsg(op) == op \o " failed"
Raises(op, env) == IF env.fault = op THEN ExcMsg(op) ELSE NoExc

\* One logged call: the operation, its arguments, and what it raised.
CollectionExistsCall(c, env) ==
    [op |-> "collection_exists", coll |-> c, raises |-> Raises("collection_exists", env)]
CreateCollectionCall(c, env) ==
    [op |-> "create_collection", coll |-> c, size |-> VECTOR_SIZE,
     distance |-> "Cosine", raises |-> Raises("create_collection", env)]
EmbedCall(t, env) == [op |-> "embed", input |-> t, raises |-> Raises("embed", env)]
UpsertCall(c, point, env) ==
    [op |-> "upsert", coll |-> c, point |-> point, raises |-> Raises("upsert", env)]
ScrollCall(c, limit, env) ==
    [op |-> "scroll", coll |-> c, limit |-> limit, raises |-> Raises("scroll", env)]
DeleteCall(c, id, env) ==
    [op |-> "delete", coll |-> c, selector |-> <<id>>, raises |-> Raises("delete", env)]
SearchCall(c, qv, limit, f, env) ==
    [op |-> "search", coll |-> c, query_vector |-> qv, limit |-> limit,
     query_filter |-> f, raises |-> Raises("search", env)]

---------------------------------------------------------------------------
(* QdrantInput.validate_action_requirements *)

\* Mutant: the validator without its point_id check.
validate_without_point_id(values) ==
    IF values.action \in {"add", "update"} /\ ~Truthy(values.content)
    THEN "Content is required for " \o values.action \o " action"
    ELSE IF values.action = "search" /\ ~Truthy(values.query)
    THEN "Query is required for search action"
    ELSE NoExc

\* The message of the ValueError the validator raises, or NoExc.
validate_action_requirements(values) ==
    IF values.action \in {"add", "update"} /\ ~Truthy(values.content)
    THEN "Content is required for " \o values.action \o " action"
    ELSE IF values.action \in {"update", "delete"} /\ ~Truthy(values.point_id)
    THEN "Point ID is required for " \o values.action \o " action"
    ELSE IF values.action = "search" /\ ~Truthy(values.query)
    THEN "Query is required for search action"
    ELSE NoExc

---------------------------------------------------------------------------
(* QdrantTool: the operation handlers.  A handler's outcome is the exception *)
(* it raised (or NoExc), the text it returned, the points of the collection *)
(* after it, and the calls it made.                                         *)

Outcome(exc, text, ps, cs) == [exc |-> exc, text |-> text, points |-> ps, calls |-> cs]

_get_embedding(text, env) ==
    [exc |-> Raises("embed", env), vector |-> Embed(text), calls |-> <<EmbedCall(text, env)>>]

\* Mutant: add stores the point without the caller's metadata.
_add_content_without_metadata(ps, collection_name, content, metadata, env) ==
    LET point_id == env.uuid
        e == _get_embedding(content, env)
        point == Point(point_id, e.vector, Payload(content, EmptyMap))
        up == UpsertCall(collection_name, point, env)
    IN IF e.exc # NoExc THEN Outcome(e.exc, <<>>, ps, e.calls)
       ELSE IF up.raises # NoExc THEN Outcome(up.raises, <<>>, ps, e.calls \o <<up>>)
       ELSE Outcome(NoExc, <<"Content added successfully with ID: " \o point_id>>,
                    Upsert(ps, point), e.calls \o <<up>>)

_add_content(ps, collection_name, content, metadata, env) ==
    LET point_id == env.uuid
        e == _get_embedding(content, env)
        point == Point(point_id, e.vector, Payload(content, MetadataOrEmpty(metadata)))
        up == UpsertCall(collection_name, point, env)
    IN IF e.exc # NoExc THEN Outcome(e.exc, <<>>, ps, e.calls)
       ELSE IF up.raises # NoExc THEN Outcome(up.raises, <<>>, ps, e.calls \o <<up>>)
       ELSE Outcome(NoExc, <<"Content added successfully with ID: " \o point_id>>,
                    Upsert(ps, point), e.calls \o <<up>>)

\* Mutant: update merges the new metadata into the old point's metadata.
_update_content_merging(ps, collection_name, point_id, content, metadata, env) ==
    LET e == _get_embedding(content, env)
        new == MetadataOrEmpty(metadata)
        old == IF point_id \in IdsOf(ps) THEN PointWithId(ps, point_id).payload.metadata
               ELSE EmptyMap
        merged == new \cup {kv \in old : \A n \in new : n[1] # kv[1]}
        point == Point(point_id, e.vector, Payload(content, merged))
        up == UpsertCall(collection_name, point, env)
    IN IF e.exc # NoExc THEN Outcome(e.exc, <<>>, ps, e.calls)
       ELSE IF up.raises # NoExc THEN Outcome(up.raises, <<>>, ps, e.calls \o <<up>>)
       ELSE Outcome(NoExc, <<"Content updated successfully for ID: " \o point_id>>,
                    Upsert(ps, point), e.calls \o <<up>>)

\* Mutant: update stores the point before it asks for the embedding.
_update_content_upsert_first(ps, collection_name, point_id, content, metadata, env) ==
    LET e == _get_embedding(content, env)
        point == Point(point_id, e.vector, Payload(content, MetadataOrEmpty(metadata)))
        up == UpsertCall(collection_name, point, env)
    IN IF up.raises # NoExc THEN Outcome(up.raises, <<>>, ps, <<up>>)
       ELSE IF e.exc # NoExc THEN Outcome(e.exc, <<>>, Upsert(ps, point), <<up>> \o e.calls)
       ELSE Outcome(NoExc, <<"Content updated successfully for ID: " \o point_id>>,
                    Upsert(ps, point), <<up>> \o e.calls)

_update_content(ps, collection_name, point_id, content, metadata, env) ==
    LET e == _get_embedding(content, env)
        point == Point(point_id, e.vector, Payload(content, MetadataOrEmpty(metadata)))
        up == UpsertCall(collection_name, point, env)
    IN IF e.exc # NoExc THEN Outcome(e.exc, <<>>, ps, e.calls)
       ELSE IF up.raises # NoExc THEN Outcome(up.raises, <<>>, ps, e.calls \o <<up>>)
       ELSE Outcome(NoExc, <<"Content updated successfully for ID: " \o point_id>>,
                    Upsert(ps, point), e.calls \o <<up>>)

PointLines(p) ==
    <<"ID: " \o p.id,
      "Content: " \o p.payload.content,
      "Metadata: " \o DictRepr(p.payload.metadata)>>

RECURSIVE ListLines(_)
ListLines(found) ==
    IF found = <<>> THEN <<>>
    ELSE PointLines(Head(found)) \o <<"---">> \o ListLines(Tail(found))

_list_content(ps, collection_name, limit, env) ==
    LET sc == ScrollCall(collection_name, limit, env)
        found == Scroll(ps, limit, env.order)
    IN IF sc.raises # NoExc THEN Outcome(sc.raises, <<>>, ps, <<sc>>)
       ELSE IF found = <<>>
       THEN Outcome(NoExc, <<"No content found in collection.">>, ps, <<sc>>)
       ELSE Outcome(NoExc, ListLines(found), ps, <<sc>>)

\* Mutant: delete raises when no point has the id.
_delete_content_strict(ps, collection_name, point_id, env) ==
    LET del == DeleteCall(collection_name, point_id, env)
    IN IF del.raises # NoExc THEN Outcome(del.raises, <<>>, ps, <<del>>)
       ELSE IF point_id \notin IdsOf(ps)
       THEN Outcome("Point " \o point_id \o " not found", <<>>, ps, <<del>>)
       ELSE Outcome(NoExc, <<"Content deleted successfully for ID: " \o point_id>>,
                    Delete(ps, point_id), <<del>>)

_delete_content(ps, collection_name, point_id, env) ==
    LET del == DeleteCall(collection_name, point_id, env)
    IN IF del.raises # NoExc THEN Outcome(del.raises, <<>>, ps, <<del>>)
       ELSE Outcome(NoExc, <<"Content deleted successfully for ID: " \o point_id>>,
                    Delete(ps, point_id), <<del>>)

\* Mutant: the filter is built when either of the pair is given.
SearchFilter_either(filter_by, filter_value) ==
    IF Truthy(filter_by) \/ Truthy(filter_value)
    THEN FieldFilter(<<"metadata", filter_by>>, filter_value)
    ELSE NoFilter

\* search_filter: built only when both filter_by and filter_value are truthy.
SearchFilter(filter_by, filter_value) ==
    IF Truthy(filter_by) /\ Truthy(filter_value)
    THEN FieldFilter(<<"metadata", filter_by>>, filter_value)
    ELSE NoFilter

RECURSIVE SearchLines(_, _)
SearchLines(found, qv) ==
    IF found = <<>> THEN <<>>
    ELSE PointLines(Head(found))
         \o <<"Score: " \o Score(qv, Head(found).vector), "---">>
         \o SearchLines(Tail(found), qv)

_search_content(ps, collection_name, query, limit, filter_by, filter_value, env) ==
    LET search_filter == SearchFilter(filter_by, filter_value)
        e == _get_embedding(query, env)
        se == SearchCall(collection_name, e.vector, limit, search_filter, env)
        search_result == Search(ps, e.vector, limit, search_filter, env.order)
    IN IF e.exc # NoExc THEN Outcome(e.exc, <<>>, ps, e.calls)
       ELSE IF se.raises # NoExc THEN Outcome(se.raises, <<>>, ps, e.calls \o <<se>>)
       ELSE IF search_result = <<>>
       THEN Outcome(NoExc, <<"No matching content found.">>, ps, e.calls \o <<se>>)
       ELSE Outcome(NoExc, SearchLines(search_result, e.vector), ps, e.calls \o <<se>>)

---------------------------------------------------------------------------
(* QdrantTool._run *)

\* Mutant: the answer of collection_exists is ignored.
NeedsCreate_always(answer) == TRUE

\* `if not self._client.collection_exists(collection_name)`
NeedsCreate(answer) == ~answer

\* Mutant: create_collection is called without asking collection_exists.
EnsureCollection_unchecked(ex, collection_name, env) ==
    LET cc == CreateCollectionCall(collection_name, env)
    IN IF cc.raises # NoExc
       THEN [exc |-> cc.raises, exists |-> ex, calls |-> <<cc>>]
       ELSE [exc |-> NoExc, exists |-> ex \cup {collection_name}, calls |-> <<cc>>]

\* The collection-ensure step: the exception raised (or NoExc), the
\* collections after it, and the calls made.
EnsureCollection(ex, collection_name, env) ==
    LET ce == CollectionExistsCall(collection_name, env)
        cc == CreateCollectionCall(collection_name, env)
    IN IF ce.raises # NoExc
       THEN [exc |-> ce.raises, exists |-> ex, calls |-> <<ce>>]
       ELSE IF ~NeedsCreate(collection_name \in ex)
       THEN [exc |-> NoExc, exists |-> ex, calls |-> <<ce>>]
       ELSE IF cc.raises # NoExc
       THEN [exc |-> cc.raises, exists |-> ex, calls |-> <<ce, cc>>]
       ELSE [exc |-> NoExc, exists |-> ex \cup {collection_name}, calls |-> <<ce, cc>>]

UnknownActionText(action) ==
    <<"Unknown action '" \o action
      \o "'. Valid actions are: add, update, list, delete, search.">>

\* Mutant: an unrecognised action falls through to the list handler.
Dispatch_default_list(ps, r, env) ==
    IF r.action = "add"
    THEN _add_content(ps, r.collection_name, r.content, r.metadata, env)
    ELSE IF r.action = "update"
    THEN _update_content(ps, r.collection_name, r.point_id, r.content, r.metadata, env)
    ELSE IF r.action = "delete"
    THEN _delete_content(ps, r.collection_name, r.point_id, env)
    ELSE IF r.action = "search"
    THEN _search_content(ps, r.collection_name, r.query, r.limit,
                         r.filter_by, r.filter_value, env)
    ELSE _list_content(ps, r.collection_name, r.limit, env)

\* The if/elif chain on action.
Dispatch(ps, r, env) ==
    IF r.action = "add"
    THEN _add_content(ps, r.collection_name, r.content, r.metadata, env)
    ELSE IF r.action = "update"
    THEN _update_content(ps, r.collection_name, r.point_id, r.content, r.metadata, env)
    ELSE IF r.action = "list"
    THEN _list_content(ps, r.collection_name, r.limit, env)
    ELSE IF r.action = "delete"
    THEN _delete_content(ps, r.collection_name, r.point_id, env)
    ELSE IF r.action = "search"
    THEN _search_content(ps, r.collection_name, r.query, r.limit,
                         r.filter_by, r.filter_value, env)
    ELSE Outcome(NoExc, UnknownActionText(r.action), ps, <<>>)

\* Mutant: no except clause, the exception reaches the caller.
TryExcept_propagating(exc, text) ==
    IF exc # NoExc THEN [raised |-> TRUE, text |-> <<exc>>]
    ELSE [raised |-> FALSE, text |-> text]

\* try: ... except Exception as e: return f"Error: {str(e)}"
TryExcept(exc, text) ==
    IF exc # NoExc THEN [raised |-> FALSE, text |-> <<"Error: " \o exc>>]
    ELSE [raised |-> FALSE, text |-> text]

\* _run: the response, the store after it, and the calls made.
_run(ex, pts, r, env) ==
    LET c == r.collection_name
        en == EnsureCollection(ex, c, env)
        h == Dispatch(pts[c], r, env)
    IN IF en.exc # NoExc
       THEN [resp |-> TryExcept(en.exc, <<>>), exists |-> en.exists,
             points |-> pts, calls |-> en.calls]
       ELSE [resp |-> TryExcept(h.exc, h.text), exists |-> en.exists,
             points |-> [pts EXCEPT ![c] = h.points], calls |-> en.calls \o h.calls]

\* The tool invocation: the arguments are validated against args_schema
\* (QdrantInput), whose root validator raises before _run is entered.
Invoke(ex, pts, r, env) ==
    LET v == validate_action_requirements(r)
    IN IF v # NoExc
       THEN [resp |-> [raised |-> TRUE, text |-> <<v>>], exists |-> ex,
             points |-> pts, calls |-> <<>>]
       ELSE _run(ex, pts, r, env)

---------------------------------------------------------------------------
(* The state machine: sequential calls *)

KnownActions == {"add", "update", "list", "delete", "search"}

\* The orders in which the store may walk the ids.
Orders ==
    {o \in [1..Cardinality(Ids) -> Ids] :
        \A i, j \in 1..Cardinality(Ids) : o[i] = o[j] => i = j}
AnyOrder == CHOOSE o \in Orders : TRUE

\* uuid.uuid4(): an id no point has.
FreshIds == Ids \ UNION {IdsOf(points[c]) : c \in Collections}
AnyId == CHOOSE i \in Ids : TRUE

Env(fault, uuid, order) == [fault |-> fault, uuid |-> uuid, order |-> order]

NoRequest == Request(None, None, None, NoneMeta, None, None, None, None, DEFAULT_LIMIT)
NoResponse == [raised |-> FALSE, text |-> <<>>]
NoAdded == [valid |-> FALSE, coll |-> None, id |-> None, content |-> None, metadata |-> NoneMeta]

Performed(cs, op) == \E k \in 1..Len(cs) : cs[k].op = op /\ cs[k].raises = NoExc
Invoked(cs, op) == \E k \in 1..Len(cs) : cs[k].op = op

\* The id of the point the upsert call of log cs stored.
UpsertedId(cs) == cs[CHOOSE k \in 1..Len(cs) : cs[k].op = "upsert"].point.id

AddedAfter(r, cs) ==
    IF r.action = "add" /\ Performed(cs, "upsert")
    THEN [valid |-> TRUE, coll |-> r.collection_name, id |-> UpsertedId(cs),
          content |-> r.content, metadata |-> r.metadata]
    ELSE IF /\ added.valid
            /\ r.collection_name = added.coll
            /\ r.point_id = added.id
            /\ \/ r.action = "update" /\ Performed(cs, "upsert")
               \/ r.action = "delete" /\ Performed(cs, "delete")
    THEN NoAdded
    ELSE added

CreatedAfter(r, cs) ==
    IF Invoked(cs, "create_collection") THEN created \cup {r.collection_name} ELSE created

Idle == \A p \in Procs : pc[p] = "idle"

\* One call of the tool, from the validation of its arguments to the
\* response: calls do not overlap.  track: whether the history variable
\* added is kept.
Execute(r, env, track) ==
    LET out == Invoke(exists, points, r, env)
    IN /\ Idle
       /\ req = NoRequest
       /\ exists' = out.exists
       /\ points' = out.points
       /\ req' = r
       /\ resp' = out.resp
       /\ calls' = out.calls
       /\ added' = IF track THEN AddedAfter(r, out.calls) ELSE added
       /\ created' = CreatedAfter(r, out.calls)
       /\ UNCHANGED <<pc, creq, saw, clog>>

\* The caller takes the response; the tool keeps nothing of the call.
Return ==
    /\ Idle
    /\ req # NoRequest
    /\ req' = NoRequest
    /\ resp' = NoResponse
    /\ calls' = <<>>
    /\ UNCHANGED <<exists, points, added, created, pc, creq, saw, clog>>

EnsureFaults == {"collection_exists", "create_collection"}

\* The collaborator calls that may raise in a call of request r: none is
\* reached when the validator rejects r.
FaultsOf(r, P, handler) ==
    IF validate_action_requirements(r) # NoExc THEN {"none"}
    ELSE P.faults \cap ({"none"} \cup EnsureFaults \cup handler)

Add(P) ==
    \E c \in Collections, content \in AddTexts, md \in OptMetas, u \in FreshIds :
        LET r == Request("add", c, content, md, None, None, None, None, DEFAULT_LIMIT)
        IN \E f \in FaultsOf(r, P, {"embed", "upsert"}) : Execute(r, Env(f, u, AnyOrder), P.track)

Update(P) ==
    \E c \in Collections, content \in UpdateTexts, md \in OptMetas, id \in UpdateIds :
        LET r == Request("update", c, content, md, id, None, None, None, DEFAULT_LIMIT)
        IN \E f \in FaultsOf(r, P, {"embed", "upsert"}) : Execute(r, Env(f, AnyId, AnyOrder), P.track)

List(P) ==
    \E c \in Collections, lim \in Limits, o \in Orders :
        LET r == Request("list", c, None, NoneMeta, None, None, None, None, lim)
        IN \E f \in FaultsOf(r, P, {"scroll"}) : Execute(r, Env(f, AnyId, o), P.track)

DeleteOp(P) ==
    \E c \in Collections, id \in DeleteIds :
        LET r == Request("delete", c, None, NoneMeta, id, None, None, None, DEFAULT_LIMIT)
        IN \E f \in FaultsOf(r, P, {"delete"}) : Execute(r, Env(f, AnyId, AnyOrder), P.track)

SearchOp(P) ==
    \E c \in Collections, q \in Queries, fb \in FilterKeys, fv \in FilterVals,
       lim \in Limits :
        LET r == Request("search", c, None, NoneMeta, None, q, fb, fv, lim)
        IN \E f \in FaultsOf(r, P, {"embed", "search"}) :
               Execute(r, Env(f, AnyId, AnyOrder), P.track)

Unknown(P) ==
    \E a \in UnknownActions, c \in Collections :
        LET r == Request(a, c, None, NoneMeta, None, None, None, None, DEFAULT_LIMIT)
        IN \E f \in FaultsOf(r, P, {}) : Execute(r, Env(f, AnyId, AnyOrder), P.track)

Init ==
    /\ exists = {}
    /\ points = [c \in Collections |-> {}]
    /\ req = NoRequest
    /\ resp = NoResponse
    /\ calls = <<>>
    /\ added = NoAdded
    /\ created = {}
    /\ pc = [p \in Procs |-> "idle"]
    /\ creq = [p \in Procs |-> NoRequest]
    /\ saw = [p \in Procs |-> FALSE]
    /\ clog = [p \in Procs |-> <<>>]

Faults == {"none", "collection_exists", "create_collection", "embed",
           "upsert", "scroll", "delete", "search"}
\* The collaborators answer every call.
Answering == [faults |-> {"none"}, track |-> FALSE]
\* The same, with the history of the latest add kept.
Tracking == [faults |-> {"none"}, track |-> TRUE]
\* Any one collaborator call may raise.
Failing == [faults |-> Faults, track |-> FALSE]

Next ==
    \/ Add(Answering)
    \/ Update(Answering)
    \/ List(Answering)
    \/ DeleteOp(Answering)
    \/ SearchOp(Answering)
    \/ Unknown(Answering)
    \/ Return

Spec == Init /\ [][Next]_vars

TrackNext ==
    \/ Add(Tracking)
    \/ Update(Tracking)
    \/ List(Tracking)
    \/ DeleteOp(Tracking)
    \/ SearchOp(Tracking)
    \/ Unknown(Tracking)
    \/ Return

TrackSpec == Init /\ [][TrackNext]_vars

FaultNext ==
    \/ Add(Failing)
    \/ Update(Failing)
    \/ List(Failing)
    \/ DeleteOp(Failing)
    \/ SearchOp(Failing)
    \/ Unknown(Failing)
    \/ Return

FaultSpec == Init /\ [][FaultNext]_vars

---------------------------------------------------------------------------
(* The state machine: overlapping calls.  _run holds no lock, so the calls *)
(* of two callers interleave at each store call of the ensure step.        *)

ConcRequests ==
    {Request("add", c, "hello", NoneMeta, None, None, None, None, DEFAULT_LIMIT) :
        c \in Collections}
    \cup {Request("list", c, None, NoneMeta, None, None, None, None, DEFAULT_LIMIT) :
        c \in Collections}

Answers == Env("none", AnyId, AnyOrder)

\* Where _run goes after collection_exists answered.
AfterCheck(answer) == IF NeedsCreate(answer) THEN "create" ELSE "dispatch"

Begin(p) ==
    /\ pc[p] = "idle"
    /\ \E r \in ConcRequests :
          /\ validate_action_requirements(r) = NoExc
          /\ creq' = [creq EXCEPT ![p] = r]
    /\ pc' = [pc EXCEPT ![p] = "check"]
    /\ clog' = [clog EXCEPT ![p] = <<>>]
    /\ saw' = [saw EXCEPT ![p] = FALSE]
    /\ UNCHANGED <<exists, points, req, resp, calls, added, created>>

CheckExists(p) ==
    LET c == creq[p].collection_name
        answer == c \in exists
    IN /\ pc[p] = "check"
       /\ saw' = [saw EXCEPT ![p] = answer]
       /\ clog' = [clog EXCEPT ![p] = @ \o <<CollectionExistsCall(c, Answers)>>]
       /\ pc' = [pc EXCEPT ![p] = AfterCheck(answer)]
       /\ UNCHANGED <<exists, points, req, resp, calls, added, created, creq>>

\* create_collection; for a name that exists by now the store either
\* rejects the call, which _run returns as an error text, or tolerates it.
CreateCollection(p) ==
    LET c == creq[p].collection_name
        log == clog[p] \o <<CreateCollectionCall(c, Answers)>>
    IN /\ pc[p] = "create"
       /\ clog' = [clog EXCEPT ![p] = log]
       /\ created' = created \cup {c}
       /\ exists' = exists \cup {c}
       /\ \/ /\ pc' = [pc EXCEPT ![p] = "dispatch"]
             /\ UNCHANGED <<req, resp, calls>>
          \/ /\ c \in exists
             /\ pc' = [pc EXCEPT ![p] = "idle"]
             /\ req' = creq[p]
             /\ resp' = TryExcept("Collection " \o c \o " already exists", <<>>)
             /\ calls' = log
       /\ UNCHANGED <<points, added, creq, saw>>

Handle(p) ==
    LET c == creq[p].collection_name
    IN /\ pc[p] = "dispatch"
       /\ \E u \in FreshIds :
            LET h == Dispatch(points[c], creq[p], Env("none", u, AnyOrder))
            IN /\ points' = [points EXCEPT ![c] = h.points]
               /\ req' = creq[p]
               /\ resp' = TryExcept(h.exc, h.text)
               /\ calls' = clog[p] \o h.calls
       /\ pc' = [pc EXCEPT ![p] = "idle"]
       /\ UNCHANGED <<exists, added, created, creq, saw, clog>>

ConcNext ==
    \E p \in Procs :
        \/ Begin(p)
        \/ CheckExists(p)
        \/ CreateCollection(p)
        \/ Handle(p)

ConcSpec == Init /\ [][ConcNext]_vars

---------------------------------------------------------------------------
(* Properties *)

Called == req # NoRequest
Missing(v) == v = None \/ v = ""

\* A required field of the request's action is empty or absent.
MissingRequired(r) ==
    \/ r.action \in {"add", "update"} /\ Missing(r.content)
    \/ r.action \in {"update", "delete"} /\ Missing(r.point_id)
    \/ r.action = "search" /\ Missing(r.query)

ValidationTexts ==
    {<<"Content is required for add action">>,
     <<"Content is required for update action">>,
     <<"Point ID is required for update action">>,
     <<"Point ID is required for delete action">>,
     <<"Query is required for search action">>}

Raised(cs) == {k \in 1..Len(cs) : cs[k].raises # NoExc}
Ops(cs) == {cs[k].op : k \in 1..Len(cs)}
EnsureOps == {"collection_exists", "create_collection"}
IsErrorText(t) == \E op \in Faults : t = <<"Error: " \o op \o " failed">>

\* C1: a request that lacks a field its action requires yields a validation
\* error, and no store call and no embedding call has been made for it.
C1_ValidationBeforeAnyCall ==
    (Called /\ MissingRequired(req)) =>
        /\ resp.raised
        /\ resp.text \in ValidationTexts
        /\ calls = <<>>

C1_Witness ==
    /\ Called
    /\ req.action = "delete"
    /\ req.point_id = ""
    /\ req.collection_name \notin exists
    /\ resp.raised

\* C2 as stated: every call returns a string and never raises, a failure of
\* the validator included, which is returned as an "Error: <message>" text.
C2_NeverRaises ==
    Called =>
        /\ ~resp.raised
        /\ MissingRequired(req) => \E m \in ValidationTexts : resp.text = <<"Error: " \o m[1]>>

\* C2 amended: a call raises exactly when the validator rejects its
\* arguments, before _run is entered; once _run is entered the call returns
\* a text, and a failure of the embedding provider or of the store client,
\* in the ensure step or in the handler, is returned as "Error: <message>".
C2_RunNeverRaises ==
    Called =>
        /\ resp.raised <=> MissingRequired(req)
        /\ resp.raised => calls = <<>>
        /\ ~resp.raised =>
              /\ calls # <<>>
              /\ resp.text # <<>>
              /\ \A k \in Raised(calls) : resp.text = <<"Error: " \o calls[k].raises>>
              /\ Raised(calls) = {} => ~IsErrorText(resp.text)

C2_Witness ==
    /\ Called
    /\ ~resp.raised
    /\ req.action = "search"
    /\ \E k \in Raised(calls) : calls[k].op = "search"
    /\ resp.text = <<"Error: search failed">>

\* C3: for an action that is none of add, update, list, delete, search the
\* call does not raise, calls no operation handler (no upsert, scroll,
\* delete, search or embedding call) and returns the text that names the
\* action and lists the five valid actions.
C3_UnknownAction ==
    (Called /\ req.action \notin {"add", "update", "list", "delete", "search"}) =>
        /\ ~resp.raised
        /\ Ops(calls) \subseteq EnsureOps
        /\ resp.text = <<"Unknown action '" \o req.action
                          \o "'. Valid actions are: add, update, list, delete, search.">>

C3_Witness ==
    /\ Called
    /\ req.action = "frobnicate"
    /\ points[req.collection_name] # {}
    /\ ~resp.raised
    /\ Len(resp.text) = 1

\* The text holds the entry of a point: its id, content and metadata lines
\* and the separator.
HasEntry(text, id, content, m) ==
    \E k \in 1..Len(text) :
        /\ k + 3 <= Len(text)
        /\ text[k] = "ID: " \o id
        /\ text[k + 1] = "Content: " \o content
        /\ text[k + 2] = "Metadata: " \o DictRepr(m)
        /\ text[k + 3] = "---"

\* C4: round trip.  The text of a successful add names the id of the point
\* it stored; and while that point is neither deleted nor updated, a list of
\* its collection whose limit is at least the number of points reports an
\* entry with that id, the added content and the added metadata (the empty
\* mapping when none was given).
C4_RoundTrip ==
    /\ (Called /\ req.action = "add" /\ Performed(calls, "upsert")) =>
           /\ added.valid
           /\ resp.text = <<"Content added successfully with ID: " \o added.id>>
    /\ (/\ Called
        /\ req.action = "list"
        /\ added.valid
        /\ added.coll = req.collection_name
        /\ req.limit >= Cardinality(points[req.collection_name])) =>
           HasEntry(resp.text, added.id, added.content,
                    IF added.metadata.isNone THEN {} ELSE added.metadata.map)

C4_Witness ==
    /\ Called
    /\ req.action = "list"
    /\ added.valid
    /\ added.coll = req.collection_name
    /\ added.metadata = SomeMeta({<<"tag", "x">>})
    /\ Cardinality(points[req.collection_name]) = 2
    /\ req.limit >= 2
    /\ Len(resp.text) = 8

UpdateSucceeded(r, rs) ==
    /\ r.action = "update"
    /\ rs = [raised |-> FALSE,
             text |-> <<"Content updated successfully for ID: " \o r.point_id>>]

\* C5: after a successful update(collection, X, content, metadata) the
\* collection holds exactly one point of id X, its payload is exactly the new
\* content and the new metadata (the empty mapping when none was given),
\* whether or not a point X existed before, and every other point of every
\* collection is as it was.
C5_UpdateReplaces ==
    [][(req = NoRequest /\ UpdateSucceeded(req', resp')) =>
          LET c == req'.collection_name
              X == req'.point_id
              m == IF req'.metadata.isNone THEN {} ELSE req'.metadata.map
          IN /\ Cardinality({p \in points'[c] : p.id = X}) = 1
             /\ \A p \in points'[c] :
                   p.id = X => p.payload = [content |-> req'.content, metadata |-> m]
             /\ {p \in points'[c] : p.id # X} = {p \in points[c] : p.id # X}
             /\ \A d \in Collections \ {c} : points'[d] = points[d]
       ]_vars

C5_Witness ==
    /\ Called
    /\ UpdateSucceeded(req, resp)
    /\ req.metadata = SomeMeta({})
    /\ Cardinality(points[req.collection_name]) = 2
    /\ \E p \in points[req.collection_name] :
          p.id # req.point_id /\ p.payload.metadata # {}

\* C6: delete is idempotent.  Whether or not a point has the id, delete
\* returns the success text with the id, not an error text; and the same
\* delete called again returns the same text and leaves the store as the
\* first call left it.
C6_DeleteIdempotent ==
    (Called /\ req.action = "delete" /\ ~MissingRequired(req)) =>
        LET again == Invoke(exists, points, req, Answers)
        IN /\ resp = [raised |-> FALSE,
                      text |-> <<"Content deleted successfully for ID: " \o req.point_id>>]
           /\ req.point_id \notin IdsOf(points[req.collection_name])
           /\ again.resp = resp
           /\ again.points = points
           /\ again.exists = exists

\* A delete of an id no point had: the call itself created the collection.
C6_Witness ==
    /\ Called
    /\ req.action = "delete"
    /\ req.point_id \in Ids
    /\ Invoked(calls, "create_collection")
    /\ ~resp.raised
    /\ ~IsErrorText(resp.text)

SearchCallOf(cs) == cs[CHOOSE k \in 1..Len(cs) : cs[k].op = "search"]
Min(a, b) == IF a <= b THEN a ELSE b

\* C7: search passes the store an equality filter on the metadata field
\* filter_by exactly when both filter_by and filter_value are given; with
\* one of them or neither it searches with no filter and returns what the
\* search with the same query and limit and no filter arguments returns,
\* which is no error.
C7_FilterAllOrNothing ==
    (Called /\ req.action = "search" /\ ~MissingRequired(req)) =>
        LET both == ~Missing(req.filter_by) /\ ~Missing(req.filter_value)
            f == SearchCallOf(calls).query_filter
            ps == points[req.collection_name]
            plain == [req EXCEPT !.filter_by = None, !.filter_value = None]
            hits == {p \in ps : <<req.filter_by, req.filter_value>> \in p.payload.metadata}
            n == Cardinality(IF both THEN hits ELSE ps)
        IN /\ Invoked(calls, "search")
           /\ f.none <=> ~both
           /\ both => f.key = <<"metadata", req.filter_by>> /\ f.value = req.filter_value
           /\ ~both => resp = Invoke(exists, points, plain, Answers).resp
           /\ ~resp.raised /\ ~IsErrorText(resp.text)
           /\ Len(resp.text) = IF n = 0 THEN 1 ELSE 5 * Min(req.limit, n)

C7_Witness ==
    /\ Called
    /\ req.action = "search"
    /\ req.filter_by = "tag"
    /\ req.filter_value = None
    /\ req.limit >= 2
    /\ \E p, q \in points[req.collection_name] :
          p.payload.metadata = {} /\ q.payload.metadata # {}
    /\ Len(resp.text) = 10

\* C8: in a sequence of calls that do not overlap, create_collection is
\* invoked for a name only when no collection of that name exists, never for
\* a name it was invoked for before, and no call removes a collection.
C8_CreateOnlyWhenAbsent ==
    [][/\ (req = NoRequest /\ Invoked(calls', "create_collection")) =>
             /\ req'.collection_name \notin exists
             /\ req'.collection_name \notin created
             /\ req'.collection_name \in exists'
       /\ exists \subseteq exists'
      ]_vars

C8_Witness ==
    /\ Called
    /\ created = Collections
    /\ exists = Collections
    /\ req.action = "add"
    /\ Ops(calls) = {"collection_exists", "embed", "upsert"}

\* C9: the exists-then-create step is not atomic.  Each caller invokes
\* create_collection only after collection_exists answered it false, and
\* the answer may be stale: the witness is the state in which two callers
\* of one name, absent at first, were both answered false and have both
\* invoked create_collection.
C9_CreateAfterOwnCheck ==
    \A p \in Procs :
        (pc[p] = "create" \/ Invoked(clog[p], "create_collection")) =>
            /\ ~saw[p]
            /\ clog[p][1] = [op |-> "collection_exists",
                             coll |-> creq[p].collection_name, raises |-> NoExc]

C9_Witness ==
    \E n \in Collections :
        \A p \in Procs :
            /\ creq[p].collection_name = n
            /\ ~saw[p]
            /\ Len(clog[p]) = 2
            /\ clog[p][2].op = "create_collection"
            /\ clog[p][2].coll = n

EmbedFailed(cs) == \E k \in Raised(cs) : cs[k].op = "embed"
Position(cs, op) == CHOOSE k \in 1..Len(cs) : cs[k].op = op

\* C10: when the embedding provider fails during add, update or search the
\* call returns an "Error:" text and the points of every collection are as
\* before the call, though the call may have created the collection; and
\* the embedding is obtained before the upsert.
C10_EmbeddingFailureStoresNothing ==
    [][/\ (req = NoRequest /\ EmbedFailed(calls')) =>
             /\ req'.action \in {"add", "update", "search"}
             /\ resp' = [raised |-> FALSE, text |-> <<"Error: embed failed">>]
             /\ points' = points
             /\ Ops(calls') \subseteq EnsureOps \cup {"embed"}
             /\ exists' \in {exists, exists \cup {req'.collection_name}}
       /\ (req = NoRequest /\ Invoked(calls', "upsert")) =>
             /\ Invoked(calls', "embed")
             /\ Position(calls', "embed") < Position(calls', "upsert")
      ]_vars

C10_Witness ==
    /\ Called
    /\ req.action = "add"
    /\ EmbedFailed(calls)
    /\ Invoked(calls, "create_collection")
    /\ req.collection_name \in exists
    /\ points[req.collection_name] = {}
    /\ resp.text = <<"Error: embed failed">>

====
